---- MODULE Spec2Model ----
(***************************************************************************)
(* Model of the deterministic core of the Christmas movie bingo card       *)
(* generator (src/src/components/BingoCardGenerator.jsx): the seeded       *)
(* generator and shuffle, the seed derivation, the highlight codec and the *)
(* component session that uses them.                                       *)
(*                                                                         *)
(* Strings are sequences of character codes.  A JavaScript array is a      *)
(* function from its integer property names to values; a property that was *)
(* never written reads as Undefined.                                       *)
(***************************************************************************)
EXTENDS Integers, Sequences, FiniteSets, TLC

VARIABLES
    pc,        \* position of the harness that calls a pure function
    input,     \* arguments of the call under study
    frame,     \* locals of the running seededShuffle call, or NoFrame
    returned,  \* values returned by the calls made so far, oldest first
    location,  \* the parameters name, movie and h of window.location.search
    rendering, \* how the renderer flushes state set outside an event handler
    phase,     \* position of the page: mount effect, asset load, effect, ready
    canvasRef, \* canvasRef.current: Null until the canvas element is mounted
    component, \* the state hooks of BingoCardGenerator
    generated  \* cards a confirmed Generate produced, in any session so far

pureVars == <<pc, input, frame, returned>>
sessionVars == <<location, rendering, phase, canvasRef, component, generated>>
vars == <<pc, input, frame, returned,
          location, rendering, phase, canvasRef, component, generated>>

----------------------------------------------------------------------------
(* Bounds of the model.                                                    *)

MaxSeedMagnitude == 40
MaxCalls == 2
MaxLen == 3
MaxPad == 1
MaxCoreLen == 2
MaxMarks == 3
MaxTokenLen == 3
MaxRemembered == 2
MaxPlaceSeed == 3

----------------------------------------------------------------------------
(* Program constants.                                                      *)

GRID_SIZE == 5
FREE_SPACE_ROW == 2
FREE_SPACE_COL == 2
LcgMultiplier == 9301
LcgIncrement == 49297
LcgModulus == 233280

\* The value undefined; tiles are pairs, so it differs from every tile.
Undefined == <<"undefined">>
NoFrame == "none"

\* The value null; strings are sequences of character codes, so it differs
\* from every string.
Null == <<-1>>

\* The value null where an object stands (an image, the metadata, a DOM
\* element, the drawn card): objects are records.
NullObject == [null |-> TRUE]

\* The state hooks as useState initialises them.
useStateDefaults ==
    [backgroundImage |-> NullObject,
     squares |-> <<>>,
     metadata |-> NullObject,
     isLoading |-> TRUE,
     currentCard |-> NullObject,
     highlightedSquares |-> {},
     winningSquares |-> {},
     currentShuffledSquares |-> Null,
     playerName |-> <<>>,
     movieName |-> <<>>,
     showWarningModal |-> FALSE,
     modalAction |-> "generate",
     isCardClickable |-> TRUE,
     lastGeneratedName |-> <<>>,
     lastGeneratedMovie |-> <<>>]

\* window.location.search without parameters.
NoParams == [name |-> Null, movie |-> Null, h |-> Null]

\* The component is not on a page: the state of the harnesses that call the
\* pure functions of the module directly.
NotMounted ==
    /\ location = NoParams
    /\ rendering = "batched"
    /\ phase = "unmounted"
    /\ canvasRef = NullObject
    /\ component = useStateDefaults
    /\ generated = {}

----------------------------------------------------------------------------
(***************************************************************************)
(* JavaScript arithmetic.  The checker's integers are 32 bits wide, the     *)
(* program's numbers are doubles that hold every integer of magnitude      *)
(* below 2^53 exactly.  Where an intermediate result of the program can    *)
(* exceed 31 bits, the model computes the same exact result by modular     *)
(* arithmetic on smaller pieces.                                           *)
(***************************************************************************)

\* Math.floor(a / b) for b > 0.
FloorDiv(a, b) == IF a >= 0 THEN a \div b ELSE -(((-a) + b - 1) \div b)

\* The residue of a modulo m in 0 .. m-1, for m > 0.
Mod(a, m) == a - m * FloorDiv(a, m)

\* (a * b) mod m for 0 <= a < m and b >= 0, by doubling.
RECURSIVE MulMod(_, _, _)
MulMod(a, b, m) ==
    IF b = 0 THEN 0
    ELSE LET h == MulMod(a, b \div 2, m)
         IN  (2 * h + (IF b % 2 = 1 THEN a ELSE 0)) % m

----------------------------------------------------------------------------
(* Tiles and arrays.                                                       *)

Cells == (0 .. GRID_SIZE - 1) \X (0 .. GRID_SIZE - 1)
FreeCell == <<FREE_SPACE_ROW, FREE_SPACE_COL>>

\* squareImages as loadAssets fills it: row-major, one tile per cell.
SquareImages ==
    [k \in 1 .. GRID_SIZE * GRID_SIZE |->
        <<(k - 1) \div GRID_SIZE, (k - 1) % GRID_SIZE>>]

\* otherSquares of generateCard: squareImages without the free space, in order.
OtherSquares == SelectSeq(SquareImages, LAMBDA sq : sq # FreeCell)

\* [...array]: a fresh array with the elements of the sequence at 0 .. length-1.
\* A draw j of the loop lies in -length .. length-1, so those are the property
\* names the model keeps.
SpreadArray(seq) ==
    [k \in -Len(seq) .. Len(seq) - 1 |->
        IF k >= 0 THEN seq[k + 1] ELSE Undefined]

ArrayLength(arr) == Cardinality({k \in DOMAIN arr : k >= 0})

\* The elements 0 .. length-1 of an array, as a sequence.
Elements(arr) == [k \in 1 .. ArrayLength(arr) |-> arr[k - 1]]

----------------------------------------------------------------------------
(* seededRandom and seededShuffle.                                         *)

\* Mutant: the generator state is created once and shared by later calls.
seededRandom_Shared(seed) ==
    IF returned = <<>> THEN seed ELSE frame.value

\* seededRandom(seed): the closure's variable value starts as the seed.
seededRandom(seed) == seed

\* One call of the closure: the new state; the value returned is state / 233280.
\* (value * 9301 + 49297) % 233280, where % takes the sign of the dividend:
\* the sum is negative exactly when value * 9301 < -49297.
NextValue(value) ==
    IF value >= 0
    THEN (MulMod(value % LcgModulus, LcgMultiplier, LcgModulus) + LcgIncrement)
            % LcgModulus
    ELSE IF (-value) <= LcgIncrement \div LcgMultiplier
    THEN (value * LcgMultiplier + LcgIncrement) % LcgModulus
    ELSE -Mod(MulMod((-value) % LcgModulus, LcgMultiplier, LcgModulus)
                 - LcgIncrement, LcgModulus)

\* Math.floor(random() * (i + 1)) for the state the call left.  The double
\* quotient state / 233280 times (i + 1) floors to the same integer as the
\* exact rational for every state of magnitude below the modulus and every
\* factor up to 26 (checked exhaustively against IEEE doubles).
DrawIndex(value, i) == FloorDiv(value * (i + 1), LcgModulus)

\* The locals of seededShuffle when the loop is entered.
ShuffleEnter(array, seed) ==
    [value |-> seededRandom(seed),
     shuffled |-> SpreadArray(array),
     i |-> Len(array) - 1,
     draws |-> 0]

\* One iteration of the loop: draw j, swap shuffled[i] and shuffled[j], i--.
ShuffleIteration(f) ==
    LET v == NextValue(f.value)
        j == DrawIndex(v, f.i)
    IN  [value |-> v,
         shuffled |-> [f.shuffled EXCEPT ![f.i] = f.shuffled[j],
                                         ![j] = f.shuffled[f.i]],
         i |-> f.i - 1,
         draws |-> f.draws + 1]

RECURSIVE ShuffleLoop(_)
ShuffleLoop(f) == IF f.i > 0 THEN ShuffleLoop(ShuffleIteration(f)) ELSE f

\* seededShuffle(array, seed): the shuffled array, as the sequence of its elements.
seededShuffle(array, seed) == Elements(ShuffleLoop(ShuffleEnter(array, seed)).shuffled)

----------------------------------------------------------------------------
(* Harness of seededShuffle: the same call made MaxCalls times, stepwise.  *)

SeedInputs ==
    (-MaxSeedMagnitude .. MaxSeedMagnitude) \cup {999999, 2147483647}

Reverse(seq) == [k \in 1 .. Len(seq) |-> seq[Len(seq) + 1 - k]]

ArrayInputs == {OtherSquares, Reverse(OtherSquares)}

InitShuffle ==
    /\ pc = "idle"
    /\ input \in [array : ArrayInputs, seed : SeedInputs]
    /\ frame = NoFrame
    /\ returned = <<>>
    /\ NotMounted

CallSeededShuffle ==
    /\ pc = "idle"
    /\ Len(returned) < MaxCalls
    /\ frame' = ShuffleEnter(input.array, input.seed)
    /\ pc' = "loop"
    /\ UNCHANGED <<input, returned>>
    /\ UNCHANGED sessionVars

LoopIteration ==
    /\ pc = "loop"
    /\ frame.i > 0
    /\ frame' = ShuffleIteration(frame)
    /\ UNCHANGED <<pc, input, returned>>
    /\ UNCHANGED sessionVars

ReturnShuffled ==
    /\ pc = "loop"
    /\ frame.i <= 0
    /\ returned' = Append(returned, Elements(frame.shuffled))
    /\ pc' = "idle"
    /\ UNCHANGED <<input, frame>>
    /\ UNCHANGED sessionVars

NextShuffle == CallSeededShuffle \/ LoopIteration \/ ReturnShuffled

SpecShuffle == InitShuffle /\ [][NextShuffle]_vars

----------------------------------------------------------------------------
(* Strings, String.prototype.toLowerCase and String.prototype.trim.        *)

CodeSpace == 32          \* " "
CodeUnderscore == 95     \* "_"
CodeUpperA == 65
CodeUpperZ == 90
CaseOffset == 32         \* "a" - "A"

\* The white space and line terminator code units that trim removes.
WhiteSpaceCodes == {9, 10, 11, 12, 13, 32, 160, 5760, 8232, 8233, 8239, 8287,
                    12288, 65279} \cup (8192 .. 8202)

\* toLowerCase on one code unit: the letters A-Z map to a-z.  (The inputs of
\* the model are ASCII; other code units map to themselves here.)
LowerCode(c) == IF c \in CodeUpperA .. CodeUpperZ THEN c + CaseOffset ELSE c

ToLowerCase(str) == [k \in DOMAIN str |-> LowerCode(str[k])]

RECURSIVE TrimStart(_)
TrimStart(str) ==
    IF str # <<>> /\ Head(str) \in WhiteSpaceCodes THEN TrimStart(Tail(str)) ELSE str

RECURSIVE TrimEnd(_)
TrimEnd(str) ==
    IF str # <<>> /\ str[Len(str)] \in WhiteSpaceCodes
    THEN TrimEnd(SubSeq(str, 1, Len(str) - 1))
    ELSE str

Trim(str) == TrimEnd(TrimStart(str))

----------------------------------------------------------------------------
(* 32-bit integer operators of JavaScript, on halves of 16 bits.           *)

Half == 65536
HalfSign == 32768

Lo16(x) == Mod(x, Half)
Hi16(x) == Mod(FloorDiv(x, Half), Half)

\* ToInt32 of hi * 2^16 + lo, for halves in 0 .. 65535.
FromHalves(hi, lo) == (IF hi >= HalfSign THEN hi - Half ELSE hi) * Half + lo

\* x << 5 for a 32-bit x.
ShiftLeft5(x) ==
    LET lo == Lo16(x) * 32
        hi == Hi16(x) * 32 + lo \div Half
    IN  FromHalves(hi % Half, lo % Half)

\* ((a - h) + c) & itself: the exact sum, wrapped to a signed 32-bit integer.
SubAddToInt32(a, h, c) ==
    LET lo == Lo16(a) - Lo16(h) + c
        hi == Hi16(a) - Hi16(h) + FloorDiv(lo, Half)
    IN  FromHalves(Mod(hi, Half), Mod(lo, Half))

\* Math.abs on a 32-bit integer.
MathAbs(x) == IF x < 0 THEN -x ELSE x

----------------------------------------------------------------------------
(* generateSeed.                                                           *)

\* `${name.toLowerCase().trim()}_${movie.toLowerCase().trim()}`
Combined(name, movie) ==
    Trim(ToLowerCase(name)) \o <<CodeUnderscore>> \o Trim(ToLowerCase(movie))

\* Mutant: the subtraction of hash is forgotten (hash * 32 + char).
HashStep_NoSubtract(hash, char) == SubAddToInt32(ShiftLeft5(hash), 0, char)

\* One iteration of the loop: hash = ((hash << 5) - hash) + char; hash = hash & hash.
HashStep(hash, char) == SubAddToInt32(ShiftLeft5(hash), hash, char)

\* One iteration of the loop on its locals: the hash so far and the index i.
HashIteration(str, f) ==
    [hash |-> HashStep(f.hash, str[f.i + 1]), i |-> f.i + 1]

\* for (let i = 0; i < combined.length; i++): the locals when the loop ends.
RECURSIVE HashLoop(_, _)
HashLoop(str, f) ==
    IF f.i < Len(str) THEN HashLoop(str, HashIteration(str, f)) ELSE f

\* let hash = 0, then the loop over combined: the final hash.
Hash(combined) == HashLoop(combined, [hash |-> 0, i |-> 0]).hash

\* Mutant: the arguments are not trimmed.
generateSeed_NoTrim(name, movie) ==
    LET combined == ToLowerCase(name) \o <<CodeUnderscore>> \o ToLowerCase(movie)
    IN  MathAbs(Hash(combined))

\* Mutant: the final hash is returned without Math.abs.
generateSeed_NoAbs(name, movie) ==
    LET combined == Combined(name, movie)
    IN  Hash(combined)

generateSeed(name, movie) ==
    LET combined == Combined(name, movie)
    IN  MathAbs(Hash(combined))

----------------------------------------------------------------------------
(* Harness of generateSeed: one call on a pair of strings.                 *)

\* The code units the names and titles of the model are made of.
SeedAlphabet == {CodeSpace, CodeUpperA, CodeUpperZ + CaseOffset}

StringsUpTo(alphabet, n) == UNION {[1 .. k -> alphabet] : k \in 0 .. n}

SeedStrings == StringsUpTo(SeedAlphabet, MaxLen)

InitSeed ==
    /\ pc = "idle"
    /\ input \in [name : SeedStrings, movie : SeedStrings]
    /\ frame = NoFrame
    /\ returned = <<>>
    /\ NotMounted

CallGenerateSeed ==
    /\ pc = "idle"
    /\ returned' = <<generateSeed(input.name, input.movie)>>
    /\ pc' = "done"
    /\ UNCHANGED <<input, frame>>
    /\ UNCHANGED sessionVars

NextSeed == CallGenerateSeed

SpecSeed == InitSeed /\ [][NextSeed]_vars

----------------------------------------------------------------------------
(* Square keys: `square_${row}_${col}.png`.                                *)

CodeZero == 48           \* "0"
CodeNine == 57           \* "9"
CodePlus == 43           \* "+"
CodeMinus == 45          \* "-"
Radix == 36
DecimalRadix == 10
HighlightBits == 25


\* The decimal text of a non-negative integer, as a template literal renders it.
RECURSIVE ToDecimal(_)
ToDecimal(n) ==
    IF n < DecimalRadix THEN <<CodeZero + n>>
    ELSE Append(ToDecimal(n \div DecimalRadix), CodeZero + (n % DecimalRadix))

\* parseInt on a text of decimal digits (a capture of \d+).
RECURSIVE ParseDecimal(_)
ParseDecimal(text) ==
    IF text = <<>> THEN 0
    ELSE ParseDecimal(SubSeq(text, 1, Len(text) - 1)) * DecimalRadix
            + (text[Len(text)] - CodeZero)

\* The key `square_${row}_${col}.png`: the fixed parts are kept implicit, the
\* two numbers are held as the decimal texts the key contains.
SquareKey(row, col) == [row |-> ToDecimal(row), col |-> ToDecimal(col)]

\* Mutant: the index is taken column by column.
squareKeyToIndex_ColumnMajor(squareKey) ==
    ParseDecimal(squareKey.col) * 5 + ParseDecimal(squareKey.row)

\* squareKeyToIndex: the key matches /square_(\d+)_(\d+)\.png/, so the index is
\* parseInt(row) * 5 + parseInt(col).
squareKeyToIndex(squareKey) ==
    ParseDecimal(squareKey.row) * 5 + ParseDecimal(squareKey.col)

\* Mutant: row and column are exchanged.
indexToSquareKey_Transposed(index) ==
    SquareKey(index % 5, FloorDiv(index, 5))

\* indexToSquareKey: row = Math.floor(index / 5), col = index % 5.
indexToSquareKey(index) == SquareKey(FloorDiv(index, 5), index % 5)

----------------------------------------------------------------------------
(* Number.prototype.toString(36) and parseInt(string, 36).                 *)

CodeLowerBase == 87      \* "a" - 10
CodeUpperBase == 55      \* "A" - 10

\* The character of a base-36 digit: 0-9, then a-z.
DigitCode(d) == IF d < DecimalRadix THEN CodeZero + d ELSE CodeLowerBase + d

\* toString(36) of a non-negative integer.
RECURSIVE ToString36(_)
ToString36(n) ==
    IF n < Radix THEN <<DigitCode(n)>>
    ELSE Append(ToString36(n \div Radix), DigitCode(n % Radix))

\* The value of a character as a base-36 digit, or -1 when it is none:
\* parseInt takes 0-9, a-z and A-Z.
DigitValue(c) ==
    IF c \in CodeZero .. CodeNine THEN c - CodeZero
    ELSE IF c \in (CodeLowerBase + DecimalRadix) .. (CodeLowerBase + Radix - 1)
    THEN c - CodeLowerBase
    ELSE IF c \in (CodeUpperBase + DecimalRadix) .. (CodeUpperBase + Radix - 1)
    THEN c - CodeUpperBase
    ELSE -1

\* The digits parseInt consumes: the longest prefix of base-36 digits.
RECURSIVE DigitPrefix(_)
DigitPrefix(str) ==
    IF str # <<>> /\ DigitValue(Head(str)) >= 0
    THEN <<Head(str)>> \o DigitPrefix(Tail(str))
    ELSE <<>>

\* A non-negative integer of any size is held as its limbs of 15 bits, the
\* lowest first and the highest not zero; zero has no limb.
LimbBits == 15
Limb == 32768

\* limbs * factor + carry, for factor and carry below 2^15.
RECURSIVE MulAdd(_, _, _)
MulAdd(limbs, factor, carry) ==
    IF limbs = <<>>
    THEN IF carry = 0 THEN <<>>
         ELSE <<carry % Limb>> \o MulAdd(<<>>, factor, carry \div Limb)
    ELSE LET t == Head(limbs) * factor + carry
         IN  <<t % Limb>> \o MulAdd(Tail(limbs), factor, t \div Limb)

\* The integer that a text of base-36 digits denotes, digit after digit.
RECURSIVE DigitsLoop(_, _)
DigitsLoop(digits, f) ==
    IF f.i < Len(digits)
    THEN DigitsLoop(digits,
                    [limbs |-> MulAdd(f.limbs, Radix, DigitValue(digits[f.i + 1])),
                     i |-> f.i + 1])
    ELSE f

DigitsValue(digits) == DigitsLoop(digits, [limbs |-> <<>>, i |-> 0]).limbs

\* parseInt(str, 36): leading white space is skipped, a sign is taken, then the
\* longest prefix of digits is the number; NaN when that prefix is empty.
ParseInt36(str) ==
    LET s1 == TrimStart(str)
        signed == s1 # <<>> /\ Head(s1) \in {CodePlus, CodeMinus}
        digits == DigitPrefix(IF signed THEN Tail(s1) ELSE s1)
    IN  IF digits = <<>> THEN [nan |-> TRUE, negative |-> FALSE, magnitude |-> <<>>]
        ELSE [nan |-> FALSE,
              negative |-> signed /\ Head(s1) = CodeMinus,
              magnitude |-> DigitsValue(digits)]

\* The number of bits of an integer held as limbs.
BitLength(limbs) ==
    IF limbs = <<>> THEN 0
    ELSE (Len(limbs) - 1) * LimbBits
            + (CHOOSE b \in 1 .. LimbBits :
                  2 ^ (b - 1) <= limbs[Len(limbs)] /\ limbs[Len(limbs)] < 2 ^ b)

\* Bit k of an integer held as limbs.
Bit(limbs, k) ==
    LET j == k \div LimbBits + 1
    IN  IF j > Len(limbs) THEN 0 ELSE (limbs[j] \div 2 ^ (k % LimbBits)) % 2

MantissaBits == 53

\* The bits 0 .. 24 of the Number that parseInt returns for a magnitude: a
\* double holds 53 significant bits, so an integer of more bits is rounded
\* to a multiple of 2^shift (to the nearest, ties to even) and its bits below
\* shift are zero.
Low25OfNumber(limbs) ==
    LET shift == BitLength(limbs) - MantissaBits
        low == ((IF Len(limbs) >= 1 THEN limbs[1] ELSE 0)
                  + (IF Len(limbs) >= 2 THEN limbs[2] * Limb ELSE 0))
                 % 2 ^ HighlightBits
    IN  IF shift <= 0 THEN low
        ELSE IF shift >= HighlightBits THEN 0
        ELSE LET q == low \div 2 ^ shift
                 r == low % 2 ^ shift
                 half == 2 ^ (shift - 1)
                 up == r > half \/ (r = half /\ Bit(limbs, shift) = 1)
             IN  ((q + (IF up THEN 1 ELSE 0)) % 2 ^ (HighlightBits - shift))
                    * 2 ^ shift

\* The bits 0 .. 24 of ToInt32(bitmask), which `bitmask & (1 << i)` reads for
\* i < 25: those of the two's complement of the number; NaN converts to 0.
MaskBits(bitmask) ==
    IF bitmask.nan THEN 0
    ELSE IF bitmask.negative
    THEN Mod(-Low25OfNumber(bitmask.magnitude), 2 ^ HighlightBits)
    ELSE Low25OfNumber(bitmask.magnitude)

\* bitmask & (1 << i) is non-zero, for a 32-bit bitmask and i < 31.
BitSet(bitmask, i) == Mod(FloorDiv(bitmask, 2 ^ i), 2) = 1

\* bitmask | (1 << i).
BitOr(bitmask, i) == IF BitSet(bitmask, i) THEN bitmask ELSE bitmask + 2 ^ i

----------------------------------------------------------------------------
(* encodeHighlights and decodeHighlights.                                  *)

\* One callback of highlightedSquares.forEach: the bitmask after one more key.
\* The bitmask does not depend on the order in which the keys are visited.
EncodeVisit(f) ==
    LET squareKey == CHOOSE k \in f.rest : TRUE
        index == squareKeyToIndex(squareKey)
    IN  [rest |-> f.rest \ {squareKey},
         bitmask |-> IF index >= 0 /\ index < HighlightBits
                     THEN BitOr(f.bitmask, index) ELSE f.bitmask]

RECURSIVE EncodeForEach(_)
EncodeForEach(f) == IF f.rest = {} THEN f ELSE EncodeForEach(EncodeVisit(f))

\* Mutant: the empty set is not encoded as the empty string.
encodeHighlights_NoEmptyToken(highlightedSquares) ==
    ToString36(EncodeForEach([rest |-> highlightedSquares, bitmask |-> 0]).bitmask)

encodeHighlights(highlightedSquares) ==
    IF Cardinality(highlightedSquares) = 0 THEN <<>>
    ELSE ToString36(EncodeForEach([rest |-> highlightedSquares, bitmask |-> 0]).bitmask)

\* decodeHighlights: the empty set for null and "", else the keys of the bits
\* 0 .. 24 set in parseInt(encoded, 36); NaN has no bit set.  parseInt does
\* not throw, so the catch branch is never taken.
decodeHighlights(encoded) ==
    IF encoded = Null \/ encoded = <<>> THEN {}
    ELSE LET bitmask == ParseInt36(encoded)
         IN  {indexToSquareKey(i) :
                i \in {k \in 0 .. HighlightBits - 1 : BitSet(MaskBits(bitmask), k)}}

----------------------------------------------------------------------------
(* Harness of the codec: a set of cells is encoded, the token decoded.     *)

\* The sets of at most n cells.
RECURSIVE CellSetsUpTo(_)
CellSetsUpTo(n) ==
    IF n = 0 THEN {{}}
    ELSE LET smaller == CellSetsUpTo(n - 1)
         IN  smaller \cup {S \cup {c} : S \in smaller, c \in Cells}

\* The sets of cells the harness encodes: the small sets and their complements.
CellSetInputs ==
    CellSetsUpTo(MaxMarks) \cup {Cells \ S : S \in CellSetsUpTo(MaxMarks)}

KeysOf(cells) == {SquareKey(c[1], c[2]) : c \in cells}

InitCodec ==
    /\ pc = "idle"
    /\ \E S \in CellSetInputs :
          input = [cells |-> S, highlightedSquares |-> KeysOf(S)]
    /\ frame = NoFrame
    /\ returned = <<>>
    /\ NotMounted

CallEncodeHighlights ==
    /\ pc = "idle"
    /\ returned' = <<encodeHighlights(input.highlightedSquares)>>
    /\ pc' = "encoded"
    /\ UNCHANGED <<input, frame>>
    /\ UNCHANGED sessionVars

CallDecodeHighlights ==
    /\ pc = "encoded"
    /\ returned' = Append(returned, decodeHighlights(returned[1]))
    /\ pc' = "decoded"
    /\ UNCHANGED <<input, frame>>
    /\ UNCHANGED sessionVars

NextCodec == CallEncodeHighlights \/ CallDecodeHighlights

SpecCodec == InitCodec /\ [][NextCodec]_vars

----------------------------------------------------------------------------
(* Harness of decodeHighlights on tokens as a URL can hold them.           *)

\* "!", " ", "-", "1", "Z", "z"
TokenAlphabet == {33, CodeSpace, CodeMinus, 49, CodeUpperZ, CodeUpperZ + CaseOffset}

\* Tokens of one repeated digit "z": five digits reach bit 25, eleven digits
\* exceed the 53 bits of a double.
LongTokens == {[k \in 1 .. n |-> CodeUpperZ + CaseOffset] : n \in {5, 11}}

TokenInputs == StringsUpTo(TokenAlphabet, MaxTokenLen) \cup LongTokens \cup {Null}

InitDecode ==
    /\ pc = "idle"
    /\ \E t \in TokenInputs : input = [encoded |-> t]
    /\ frame = NoFrame
    /\ returned = <<>>
    /\ NotMounted

CallDecodeToken ==
    /\ pc = "idle"
    /\ returned' = <<decodeHighlights(input.encoded)>>
    /\ pc' = "done"
    /\ UNCHANGED <<input, frame>>
    /\ UNCHANGED sessionVars

NextDecode == CallDecodeToken

SpecDecode == InitDecode /\ [][NextDecode]_vars

----------------------------------------------------------------------------
(* Harness of the flat-index mapping: a cell's key is turned into its      *)
(* index and back, an index into its key and back.                         *)

IndexInputs ==
    {[cell |-> c] : c \in Cells} \cup {[index |-> i] : i \in 0 .. HighlightBits - 1}

InitIndex ==
    /\ pc = "idle"
    /\ input \in IndexInputs
    /\ frame = NoFrame
    /\ returned = <<>>
    /\ NotMounted

\* The first call: on the key of the cell, or on the index.
CallOnInput ==
    /\ pc = "idle"
    /\ returned' =
         IF "cell" \in DOMAIN input
         THEN <<squareKeyToIndex(SquareKey(input.cell[1], input.cell[2]))>>
         ELSE <<indexToSquareKey(input.index)>>
    /\ pc' = "called"
    /\ UNCHANGED <<input, frame>>
    /\ UNCHANGED sessionVars

\* The second call: the inverse function on the result of the first.
CallInverse ==
    /\ pc = "called"
    /\ returned' =
         Append(returned,
                IF "cell" \in DOMAIN input
                THEN indexToSquareKey(returned[1])
                ELSE squareKeyToIndex(returned[1]))
    /\ pc' = "inverted"
    /\ UNCHANGED <<input, frame>>
    /\ UNCHANGED sessionVars

NextIndex == CallOnInput \/ CallInverse

SpecIndex == InitIndex /\ [][NextIndex]_vars

\* C12: for row, col in 0..4 the index of the key square_{row}_{col}.png is
\* row*5+col and the key of that index is the same key; for i in 0..24 the
\* index of the key of i is i.
C12_FlatIndexBijection ==
    /\ (pc # "idle" /\ "cell" \in DOMAIN input) =>
          returned[1] = input.cell[1] * 5 + input.cell[2]
    /\ (pc = "inverted" /\ "cell" \in DOMAIN input) =>
          /\ returned[2].row = <<48 + input.cell[1]>>
          /\ returned[2].col = <<48 + input.cell[2]>>
    /\ (pc = "inverted" /\ "index" \in DOMAIN input) =>
          returned[2] = input.index

\* The key square_3_4.png gave index 19, and index 19 gave the key back.
C12_Witness ==
    /\ pc = "inverted"
    /\ "cell" \in DOMAIN input
    /\ input.cell = <<3, 4>>
    /\ returned[1] = 19
    /\ returned[2] = [row |-> <<51>>, col |-> <<52>>]

----------------------------------------------------------------------------
(* Claims about the highlight codec (SpecCodec, SpecDecode).               *)

FreeKey == SquareKey(FREE_SPACE_ROW, FREE_SPACE_COL)

\* C8: for every subset S of the 24 non-free cells, the empty set included,
\* decodeHighlights(encodeHighlights(S)) is exactly S.
C8_CodecRoundTrip ==
    (pc = "decoded" /\ FreeCell \notin input.cells) =>
        returned[2] = input.highlightedSquares

\* The set {(0,1), (4,4)} has been encoded and decoded.
C8_Witness ==
    /\ pc = "decoded"
    /\ input.cells = {<<0, 1>>, <<4, 4>>}
    /\ returned[1] # <<>>
    /\ Cardinality(returned[2]) = 2

\* A token is a base-36 number when it is an optional sign followed by one or
\* more of the digits 0-9, a-z, A-Z (white space may lead).
IsBase36Number(token) ==
    /\ token # Null
    /\ \E k \in 1 .. Len(token) :
          /\ \A j \in 1 .. k - 1 : token[j] \in WhiteSpaceCodes
          /\ \E d \in {k, k + 1} :
                /\ d <= Len(token)
                /\ d = k + 1 => token[k] \in {CodePlus, CodeMinus}
                /\ \A j \in d .. Len(token) : DigitValue(token[j]) >= 0

\* C9, as stated: decodeHighlights returns the empty set for every absent,
\* empty or unparseable token (a token that is not a base-36 number).
C9_UnparseableDecodesToEmpty ==
    (pc = "done" /\ ~IsBase36Number(input.encoded)) => returned[1] = {}

\* The digits of a base-36 number: the token without leading white space
\* and sign.
DigitsOf(token) ==
    LET s1 == TrimStart(token)
    IN  IF s1 # <<>> /\ Head(s1) \in {CodePlus, CodeMinus} THEN Tail(s1) ELSE s1

\* The integer that a text of digits denotes, modulo 2^25, by Horner's rule.
RECURSIVE DigitsMod(_, _)
DigitsMod(digits, f) ==
    IF f.i < Len(digits)
    THEN LET c == digits[f.i + 1]
             d == IF c <= 57 THEN c - 48 ELSE IF c <= 90 THEN c - 65 + 10 ELSE c - 97 + 10
         IN  DigitsMod(digits, [acc |-> (f.acc * 36 + d) % 33554432, i |-> f.i + 1])
    ELSE f

\* The bits 0 .. 24 of the integer m that a base-36 number denotes, as the
\* integer they form (m is read in two's complement when it is negative).
LowBitsOf(token) ==
    LET magnitude == DigitsMod(DigitsOf(token), [acc |-> 0, i |-> 0]).acc
    IN  IF Head(TrimStart(token)) = CodeMinus
        THEN (33554432 - magnitude) % 33554432
        ELSE magnitude

\* The cells named by a set of keys that all lie on the grid.
CellsOfKeys(keys) == {c \in Cells : SquareKey(c[1], c[2]) \in keys}

RECURSIVE SumOfBits(_)

\* C11, as stated: for every token that parses as a base-36 integer m,
\* decodeHighlights returns exactly the cells (floor(i/5), i mod 5) of the bit
\* positions i in 0..24 set in m, so a subset of the 25 grid cells; the bits
\* at position 25 and above add nothing.
C11_DecodeIsBitsOfToken ==
    (pc = "done" /\ IsBase36Number(input.encoded)) =>
        /\ returned[1] \subseteq KeysOf(Cells)
        /\ SumOfBits(CellsOfKeys(returned[1])) = LowBitsOf(input.encoded)

\* The integer a token denotes when its characters are the digits 0-9, a-z.
RECURSIVE Base36Value(_)
Base36Value(token) ==
    IF token = <<>> THEN 0
    ELSE Base36Value(SubSeq(token, 1, Len(token) - 1)) * 36
            + LET c == token[Len(token)]
              IN  IF c <= 57 THEN c - 48 ELSE c - 97 + 10

SumOfBits(cells) ==
    IF cells = {} THEN 0
    ELSE LET c == CHOOSE x \in cells : TRUE
         IN  2 ^ (c[1] * 5 + c[2]) + SumOfBits(cells \ {c})

\* C10: encodeHighlights returns the empty string iff the set is empty; for a
\* non-empty set it returns the base-36 rendering (digits 0-9, a-z, no leading
\* zero) of the integer whose bit row*5+col is set exactly for the cells of
\* the set.
C10_EncodeIsBase36OfBitmask ==
    pc \in {"encoded", "decoded"} =>
        LET token == returned[1]
        IN  /\ (token = <<>>) <=> (input.cells = {})
            /\ input.cells # {} =>
                  /\ \A k \in DOMAIN token : token[k] \in (48 .. 57) \cup (97 .. 122)
                  /\ token[1] # 48
                  /\ Base36Value(token) = SumOfBits(input.cells)

\* The set {(0,0), (2,2), (4,4)} has been encoded: 2^0 + 2^12 + 2^24 is "9zojl".
C10_Witness ==
    /\ pc = "encoded"
    /\ input.cells = {<<0, 0>>, <<2, 2>>, <<4, 4>>}
    /\ returned[1] = <<57, 122, 111, 106, 108>>

----------------------------------------------------------------------------
(* Claims about generateSeed (SpecSeed).                                   *)

CodeLowerA == CodeUpperA + CaseOffset
CodeLowerZ == CodeUpperZ + CaseOffset

\* The forms of one code unit under a change of letter case.
LetterForms(c) ==
    {c} \cup (IF c \in CodeUpperA .. CodeUpperZ THEN {c + CaseOffset} ELSE {})
        \cup (IF c \in CodeLowerA .. CodeLowerZ THEN {c - CaseOffset} ELSE {})

\* The strings that differ from str only in the case of letters.
CaseVariants(str) ==
    {t \in [DOMAIN str -> UNION {LetterForms(str[k]) : k \in DOMAIN str}] :
        \A k \in DOMAIN str : t[k] \in LetterForms(str[k])}

Spaces(n) == [k \in 1 .. n |-> CodeSpace]

\* str with up to MaxPad spaces added at each end and any change of case.
PadCaseVariants(str) ==
    {Spaces(l) \o t \o Spaces(r) :
        l \in 0 .. MaxPad, r \in 0 .. MaxPad, t \in CaseVariants(str)}

\* Harness of the normalization law: generateSeed is called on a pair of
\* strings and then on a variant of the pair.
PairAlphabet == {CodeSpace, CodeUpperA}

PairStrings == StringsUpTo(PairAlphabet, MaxCoreLen)

InitSeedPair ==
    /\ pc = "idle"
    /\ \E n \in PairStrings, m \in PairStrings :
          \E n2 \in PadCaseVariants(n), m2 \in PadCaseVariants(m) :
              input = [name |-> n, movie |-> m, name2 |-> n2, movie2 |-> m2]
    /\ frame = NoFrame
    /\ returned = <<>>
    /\ NotMounted

CallOnPair ==
    /\ pc = "idle"
    /\ returned' = <<generateSeed(input.name, input.movie)>>
    /\ pc' = "variant"
    /\ UNCHANGED <<input, frame>>
    /\ UNCHANGED sessionVars

CallOnVariant ==
    /\ pc = "variant"
    /\ returned' = Append(returned, generateSeed(input.name2, input.movie2))
    /\ pc' = "done"
    /\ UNCHANGED <<input, frame>>
    /\ UNCHANGED sessionVars

NextSeedPair == CallOnPair \/ CallOnVariant

SpecSeedPair == InitSeedPair /\ [][NextSeedPair]_vars

\* C5: generateSeed is invariant under normalization: adding leading or
\* trailing white space to the name or the title and changing the case of
\* their letters does not change the seed.
C5_SeedNormalizationInvariant ==
    pc = "done" => returned[1] = returned[2]

\* The seeds of ("A", "A ") and of its variant (" a", " a  ") have been derived.
C5_Witness ==
    /\ pc = "done"
    /\ input.name = <<CodeUpperA>>
    /\ input.movie = <<CodeUpperA, CodeSpace>>
    /\ input.name2 = <<CodeSpace, CodeLowerA>>
    /\ input.movie2 = <<CodeSpace, CodeLowerA, CodeSpace, CodeSpace>>
    /\ Len(returned) = 2

\* hash * 31 + char wrapped to the signed 32-bit range, by multiplication.
Times31Wrapped(hash, char) ==
    LET lo == Lo16(hash) * 31 + char
        hi == Hi16(hash) * 31 + lo \div Half
    IN  FromHalves(hi % Half, lo % Half)

\* The reference hash of the first n code units of str, starting from 0.
RECURSIVE ReferenceHash(_, _, _)
ReferenceHash(str, n, acc) ==
    IF acc.i >= n THEN acc.hash
    ELSE ReferenceHash(str, n,
            [hash |-> Times31Wrapped(acc.hash, str[acc.i + 1]), i |-> acc.i + 1])

\* C6: generateSeed returns the absolute value of the hash that starts from 0
\* and takes hash * 31 + charCode, wrapped to signed 32 bits, for every code
\* unit of the normalized string name + "_" + title.
C6_SeedIsAbsOfHash31 ==
    pc = "done" =>
        LET str == Trim(ToLowerCase(input.name)) \o <<CodeUnderscore>>
                      \o Trim(ToLowerCase(input.movie))
            ref == ReferenceHash(str, Len(str), [hash |-> 0, i |-> 0])
        IN  returned[1] = (IF ref < 0 THEN -ref ELSE ref)

\* The seed of ("AAA", "AA"), whose hash wraps to -1425373986.
C6_Witness ==
    /\ pc = "done"
    /\ input.name = <<CodeUpperA, CodeUpperA, CodeUpperA>>
    /\ input.movie = <<CodeUpperA, CodeUpperA>>
    /\ returned[1] = 1425373986

\* C7: for every pair of strings, empty ones and ones whose hash wraps to a
\* negative value included, generateSeed returns a non-negative integer.
C7_SeedNonNegative ==
    pc = "done" => returned[1] \in Nat

\* A seed has been derived from a hash that wrapped to a negative value.
C7_Witness ==
    /\ pc = "done"
    /\ Hash(Combined(input.name, input.movie)) < 0

----------------------------------------------------------------------------
(* Claims about seededRandom and seededShuffle (SpecShuffle).              *)

Range(seq) == {seq[k] : k \in DOMAIN seq}

\* out holds every element of array exactly once and nothing else.
IsPermutationOf(out, array) ==
    /\ Len(out) = Len(array)
    /\ \A t \in Range(array) :
          Cardinality({k \in DOMAIN out : out[k] = t})
              = Cardinality({k \in DOMAIN array : array[k] = t})
    /\ Range(out) \subseteq Range(array)

\* C1: seededShuffle is deterministic: every call with the same list and the
\* same seed returns the same ordering, element by element.
C1_ShuffleDeterministic ==
    \A a, b \in DOMAIN returned : returned[a] = returned[b]

\* Two calls have returned and the shuffle moved something.
C1_Witness ==
    /\ Len(returned) = MaxCalls
    /\ returned[1] # input.array
    /\ input.seed > 0

\* C2, as stated: for every integer seed the output is a permutation of the
\* 24 input tiles (length 24, every tile exactly once, no undefined entry).
C2_PermutationForEverySeed ==
    \A k \in DOMAIN returned :
        /\ Len(returned[k]) = 24
        /\ IsPermutationOf(returned[k], input.array)

\* C3, as stated: for every integer seed, after each update the generator
\* state lies in 0 .. 233279, so every value returned is >= 0 and < 1.
C3_ValuesInUnitInterval ==
    (pc = "loop" /\ frame.draws > 0) => frame.value \in 0 .. LcgModulus - 1

----------------------------------------------------------------------------
(* checkBingo.                                                             *)

\* The canvas element, the background image and metadata.json as loaded: the
\* entry of every key has extraction_bounds.
Canvas == [element |-> "canvas"]
BackgroundImage == [src |-> "unnamed.webp"]
Metadata == [squares |-> KeysOf(Cells)]

\* Mutant: the free space is marked only when the set holds it.
checkBingo_FreeNotImplied(highlighted, metadataData) ==
    LET last == GRID_SIZE - 1
        grid == [c \in Cells |-> SquareKey(c[1], c[2]) \in highlighted]
        rows == {row \in 0 .. last : \A col \in 0 .. last : grid[<<row, col>>]}
        columns == {col \in 0 .. last : \A row \in 0 .. last : grid[<<row, col>>]}
        diagonal1 == \A i \in 0 .. last : grid[<<i, i>>]
        diagonal2 == \A i \in 0 .. last : grid[<<i, last - i>>]
    IN  KeysOf({c \in Cells :
                  \/ c[1] \in rows
                  \/ c[2] \in columns
                  \/ diagonal1 /\ c[1] = c[2]
                  \/ diagonal2 /\ c[2] = last - c[1]})

\* Mutant: the second diagonal is not looked at.
checkBingo_OneDiagonal(highlighted, metadataData) ==
    LET last == GRID_SIZE - 1
        grid == [c \in Cells |->
                    c = FreeCell \/ SquareKey(c[1], c[2]) \in highlighted]
        rows == {row \in 0 .. last : \A col \in 0 .. last : grid[<<row, col>>]}
        columns == {col \in 0 .. last : \A row \in 0 .. last : grid[<<row, col>>]}
        diagonal1 == \A i \in 0 .. last : grid[<<i, i>>]
    IN  KeysOf({c \in Cells :
                  \/ c[1] \in rows
                  \/ c[2] \in columns
                  \/ diagonal1 /\ c[1] = c[2]})

\* Mutant: a row wins when some cell of it is marked, not every cell.
checkBingo_RowSome(highlighted, metadataData) ==
    LET last == GRID_SIZE - 1
        grid == [c \in Cells |->
                    c = FreeCell \/ SquareKey(c[1], c[2]) \in highlighted]
        rows == {row \in 0 .. last : \E col \in 0 .. last : grid[<<row, col>>]}
        columns == {col \in 0 .. last : \A row \in 0 .. last : grid[<<row, col>>]}
        diagonal1 == \A i \in 0 .. last : grid[<<i, i>>]
        diagonal2 == \A i \in 0 .. last : grid[<<i, last - i>>]
    IN  KeysOf({c \in Cells :
                  \/ c[1] \in rows
                  \/ c[2] \in columns
                  \/ diagonal1 /\ c[1] = c[2]
                  \/ diagonal2 /\ c[2] = last - c[1]})

\* The keys of the lines whose five cells are all marked; the free space is
\* marked whatever the set holds.
checkBingo(highlighted, metadataData) ==
    LET last == GRID_SIZE - 1
        grid == [c \in Cells |->
                    c = FreeCell \/ SquareKey(c[1], c[2]) \in highlighted]
        rows == {row \in 0 .. last : \A col \in 0 .. last : grid[<<row, col>>]}
        columns == {col \in 0 .. last : \A row \in 0 .. last : grid[<<row, col>>]}
        diagonal1 == \A i \in 0 .. last : grid[<<i, i>>]
        diagonal2 == \A i \in 0 .. last : grid[<<i, last - i>>]
    IN  KeysOf({c \in Cells :
                  \/ c[1] \in rows
                  \/ c[2] \in columns
                  \/ diagonal1 /\ c[1] = c[2]
                  \/ diagonal2 /\ c[2] = last - c[1]})

----------------------------------------------------------------------------
(* Harness of checkBingo: one call on a highlight set.                     *)

\* The twelve lines checkBingo looks at: rows, columns and the two diagonals.
Lines ==
    {{<<row, col>> : col \in 0 .. GRID_SIZE - 1} : row \in 0 .. GRID_SIZE - 1}
    \cup {{<<row, col>> : row \in 0 .. GRID_SIZE - 1} : col \in 0 .. GRID_SIZE - 1}
    \cup {{<<i, i>> : i \in 0 .. GRID_SIZE - 1},
          {<<i, GRID_SIZE - 1 - i>> : i \in 0 .. GRID_SIZE - 1}}

\* The highlight sets of the harness: the small sets, and every line, alone
\* or with a second line, with one cell more or with one cell less.
BingoInputs ==
    CellSetsUpTo(MaxMarks)
    \cup {L1 \cup L2 : L1 \in Lines, L2 \in Lines}
    \cup {L \cup {c} : L \in Lines, c \in Cells}
    \cup {(L1 \cup L2) \ {c} : L1 \in Lines, L2 \in Lines, c \in Cells}

InitBingo ==
    /\ pc = "idle"
    /\ \E H \in BingoInputs : input = [cells |-> H, highlighted |-> KeysOf(H)]
    /\ frame = NoFrame
    /\ returned = <<>>
    /\ NotMounted

CallCheckBingo ==
    /\ pc = "idle"
    /\ returned' = <<checkBingo(input.highlighted, Metadata)>>
    /\ pc' = "done"
    /\ UNCHANGED <<input, frame>>
    /\ UNCHANGED sessionVars

NextBingo == CallCheckBingo

SpecBingo == InitBingo /\ [][NextBingo]_vars

\* A cell is marked when it is the free space or in the highlight set.
MarkedCells(H) == H \cup {FreeCell}

\* C13: checkBingo(H) is exactly the union of the lines whose five cells are
\* all marked; so it is empty iff no line is fully marked, and a highlight
\* set that is exactly one row yields exactly the five cells of that row.
C13_WinSetIsUnionOfFullLines ==
    pc = "done" =>
        LET full == {L \in Lines : L \subseteq MarkedCells(input.cells)}
        IN  /\ returned[1] \subseteq KeysOf(Cells)
            /\ CellsOfKeys(returned[1]) = UNION full
            /\ (returned[1] = {}) <=> (full = {})
            /\ \A row \in 0 .. 4 :
                  input.cells = {<<row, col>> : col \in 0 .. 4}
                     => CellsOfKeys(returned[1]) = input.cells

\* Row 0 and the four corners-to-centre cells of the second diagonal are
\* marked: the win set is the nine cells of the two lines.
C13_Witness ==
    /\ pc = "done"
    /\ input.cells = {<<0, 0>>, <<0, 1>>, <<0, 2>>, <<0, 3>>, <<0, 4>>,
                      <<1, 3>>, <<3, 1>>, <<4, 0>>}
    /\ Cardinality(returned[1]) = 9

\* C14: the free space counts as marked whether or not the set holds it: when
\* the four other cells of row 2, of column 2, of the main diagonal or of the
\* anti-diagonal are marked, the line is complete and the win set holds (2,2).
C14_FreeSpaceImplicitlyMarked ==
    pc = "done" =>
        \A L \in {K \in Lines : FreeCell \in K} :
            (L \ {FreeCell}) \subseteq input.cells =>
                /\ L \subseteq CellsOfKeys(returned[1])
                /\ SquareKey(2, 2) \in returned[1]

\* Only (0,0), (1,1), (3,3), (4,4) are marked and the win set is the main
\* diagonal with (2,2).
C14_Witness ==
    /\ pc = "done"
    /\ input.cells = {<<0, 0>>, <<1, 1>>, <<3, 3>>, <<4, 4>>}
    /\ CellsOfKeys(returned[1]) = input.cells \cup {<<2, 2>>}

\* What a highlight set grows by: nothing, one cell, or a whole line.
Extensions == {{}} \cup {{c} : c \in Cells} \cup Lines

\* C31: every key of checkBingo(H) is the key of the free space (2,2) or a
\* member of H, and the win set is monotone: a set that holds H, H with one
\* more cell or with one more line, has a win set that holds checkBingo(H).
C31_WinSetWithinMarksAndMonotone ==
    pc = "done" =>
        /\ returned[1] \subseteq input.highlighted \cup {FreeKey}
        /\ \A E \in Extensions :
              returned[1] \subseteq
                  checkBingo(input.highlighted \cup KeysOf(E), Metadata)

\* Only (0,4), (1,3), (3,1), (4,0) are marked: the win set is not empty, it
\* holds the key of the free space, which the set does not hold, and it grows
\* when row 0 is added.
C31_Witness ==
    /\ pc = "done"
    /\ input.cells = {<<0, 4>>, <<1, 3>>, <<3, 1>>, <<4, 0>>}
    /\ FreeKey \in returned[1]
    /\ FreeKey \notin input.highlighted
    /\ Cardinality(returned[1]) = 5
    /\ Cardinality(checkBingo(input.highlighted
                                \cup KeysOf({<<0, col>> : col \in 0 .. 4}),
                              Metadata)) = 9

----------------------------------------------------------------------------
(* generateCard.                                                           *)

\* A position of the canvas where no tile was drawn shows the background.
Background == <<"background">>

\* The parameter seed of generateCard is an optional integer: <<>> stands for
\* its default null, <<n>> for the integer n.
NoSeed == <<>>

\* A string used as a condition: null and "" are falsy.
Truthy(str) == str # Null /\ str # <<>>

\* squaresByPosition["2_2"]: the tile loaded for the free space, if any.
FreeSpaceOf(squareImages) ==
    IF \E k \in DOMAIN squareImages : squareImages[k] = FreeCell
    THEN FreeCell ELSE Undefined

\* Mutant: a shuffle that exists is reused whatever preserveShuffle says.
ShuffledSquares_KeepCurrent(current, otherSquares, preserveShuffle, seed, random) ==
    IF current # Null /\ Len(current) = Len(otherSquares)
    THEN [shuffledSquares |-> current, stored |-> FALSE]
    ELSE [shuffledSquares |->
              seededShuffle(otherSquares, IF seed # NoSeed THEN seed[1] ELSE random),
          stored |-> TRUE]

\* The shuffle generateCard draws: the current one when it is preserved and
\* fits, else a new one from the seed, or from Math.random() * 1000000 when no
\* seed is given; stored tells whether setCurrentShuffledSquares is called.
ShuffledSquares(current, otherSquares, preserveShuffle, seed, random) ==
    IF preserveShuffle /\ current # Null /\ Len(current) = Len(otherSquares)
    THEN [shuffledSquares |-> current, stored |-> FALSE]
    ELSE [shuffledSquares |->
              seededShuffle(otherSquares, IF seed # NoSeed THEN seed[1] ELSE random),
          stored |-> TRUE]

\* Mutant: the scan runs down the columns.
PlaceIteration_ColumnMajor(f, shuffledSquares, freeSpace, metadataData) ==
    LET row == f.k % GRID_SIZE
        col == f.k \div GRID_SIZE
    IN  IF SquareKey(row, col) \notin metadataData.squares
        THEN [f EXCEPT !.k = @ + 1]
        ELSE IF row = FREE_SPACE_ROW /\ col = FREE_SPACE_COL
        THEN [f EXCEPT !.k = @ + 1,
                       !.drawn[<<row, col>>] =
                           IF freeSpace # Undefined THEN freeSpace ELSE @]
        ELSE IF f.shuffledIndex < Len(shuffledSquares)
        THEN [f EXCEPT !.k = @ + 1,
                       !.drawn[<<row, col>>] = shuffledSquares[f.shuffledIndex + 1],
                       !.shuffledIndex = @ + 1]
        ELSE [f EXCEPT !.k = @ + 1]

\* One iteration of the placement loops, on the position k of the row-major
\* scan: a position without bounds is skipped, the free space gets its own
\* tile, every other position the next tile of the shuffle.
PlaceIteration(f, shuffledSquares, freeSpace, metadataData) ==
    LET row == f.k \div GRID_SIZE
        col == f.k % GRID_SIZE
    IN  IF SquareKey(row, col) \notin metadataData.squares
        THEN [f EXCEPT !.k = @ + 1]
        ELSE IF row = FREE_SPACE_ROW /\ col = FREE_SPACE_COL
        THEN [f EXCEPT !.k = @ + 1,
                       !.drawn[<<row, col>>] =
                           IF freeSpace # Undefined THEN freeSpace ELSE @]
        ELSE IF f.shuffledIndex < Len(shuffledSquares)
        THEN [f EXCEPT !.k = @ + 1,
                       !.drawn[<<row, col>>] = shuffledSquares[f.shuffledIndex + 1],
                       !.shuffledIndex = @ + 1]
        ELSE [f EXCEPT !.k = @ + 1]

RECURSIVE PlaceLoop(_, _, _, _)
PlaceLoop(f, shuffledSquares, freeSpace, metadataData) ==
    IF f.k < GRID_SIZE * GRID_SIZE
    THEN PlaceLoop(PlaceIteration(f, shuffledSquares, freeSpace, metadataData),
                   shuffledSquares, freeSpace, metadataData)
    ELSE f

\* The tile drawn at each cell of the canvas.
PlaceSquares(shuffledSquares, freeSpace, metadataData) ==
    PlaceLoop([k |-> 0, shuffledIndex |-> 0, drawn |-> [c \in Cells |-> Background]],
              shuffledSquares, freeSpace, metadataData).drawn

freeSpaceKey == SquareKey(FREE_SPACE_ROW, FREE_SPACE_COL)

\* Mutant: the card is drawn from a new shuffle that is not stored.
generateCard_ShuffleNotStored(state, closure, canvas, bgImg, squareImages, metadataData, highlights, preserveShuffle, seed, random) ==
    IF bgImg = NullObject \/ Len(squareImages) = 0 \/ metadataData = NullObject
    THEN state
    ELSE IF canvas = NullObject
    THEN state
    ELSE
      LET otherSquares == SelectSeq(squareImages, LAMBDA sq : sq # FreeCell)
          shuffle == ShuffledSquares(closure.currentShuffledSquares, otherSquares,
                                     preserveShuffle, seed, random)
          winning == checkBingo(highlights, metadataData)
          card ==
            [tiles |-> PlaceSquares(shuffle.shuffledSquares,
                                    FreeSpaceOf(squareImages), metadataData),
             red |-> {squareKey \in highlights :
                        squareKey \in metadataData.squares /\ squareKey \notin winning},
             green |-> {squareKey \in highlights \cup {freeSpaceKey} :
                          squareKey \in metadataData.squares /\ squareKey \in winning},
             text |-> IF Truthy(closure.playerName) /\ Truthy(closure.movieName)
                      THEN [movie |-> Trim(closure.movieName),
                            person |-> Trim(closure.playerName)]
                      ELSE NullObject]
      IN  [state EXCEPT !.currentCard = card]

\* generateCard: the state hooks `state` after the call.  closure holds the
\* hooks of the render the calling function was created in, canvas is
\* canvasRef.current at the call, random the outcome of
\* Math.random() * 1000000 should the call draw it.  The card is the content
\* of the data URL: the tiles, the circles and the text drawn.
generateCard(state, closure, canvas, bgImg, squareImages, metadataData, highlights, preserveShuffle, seed, random) ==
    IF bgImg = NullObject \/ Len(squareImages) = 0 \/ metadataData = NullObject
    THEN state
    ELSE IF canvas = NullObject
    THEN state
    ELSE
      LET otherSquares == SelectSeq(squareImages, LAMBDA sq : sq # FreeCell)
          shuffle == ShuffledSquares(closure.currentShuffledSquares, otherSquares,
                                     preserveShuffle, seed, random)
          winning == checkBingo(highlights, metadataData)
          card ==
            [tiles |-> PlaceSquares(shuffle.shuffledSquares,
                                    FreeSpaceOf(squareImages), metadataData),
             red |-> {squareKey \in highlights :
                        squareKey \in metadataData.squares /\ squareKey \notin winning},
             green |-> {squareKey \in highlights \cup {freeSpaceKey} :
                          squareKey \in metadataData.squares /\ squareKey \in winning},
             text |-> IF Truthy(closure.playerName) /\ Truthy(closure.movieName)
                      THEN [movie |-> Trim(closure.movieName),
                            person |-> Trim(closure.playerName)]
                      ELSE NullObject]
      IN  [state EXCEPT
             !.currentShuffledSquares =
                 IF shuffle.stored THEN shuffle.shuffledSquares ELSE @,
             !.currentCard = card]

----------------------------------------------------------------------------
(* The placement on its own: a permutation and a metadata file in, the      *)
(* tile drawn at each cell out.                                            *)

\* metadata.json with the bounds of every position, or of all but one.
MetadataInputs ==
    {Metadata} \cup {[squares |-> KeysOf(Cells \ {missing})] : missing \in Cells}

InitPlace ==
    /\ pc = "idle"
    /\ \E seed \in 0 .. MaxPlaceSeed, metadataData \in MetadataInputs :
         input = [shuffledSquares |-> seededShuffle(OtherSquares, seed),
                  metadataData |-> metadataData]
    /\ frame = NoFrame
    /\ returned = <<>>
    /\ NotMounted

CallPlaceSquares ==
    /\ pc = "idle"
    /\ returned' = <<PlaceSquares(input.shuffledSquares, FreeSpaceOf(SquareImages),
                                  input.metadataData)>>
    /\ pc' = "done"
    /\ UNCHANGED <<input, frame>>
    /\ UNCHANGED sessionVars

NextPlace == CallPlaceSquares

SpecPlace == InitPlace /\ [][NextPlace]_vars

\* The k-th position of the row-major scan that skips the free space.
ScanPosition(k) ==
    LET i == IF k < FREE_SPACE_ROW * GRID_SIZE + FREE_SPACE_COL THEN k ELSE k + 1
    IN  <<i \div GRID_SIZE, i % GRID_SIZE>>

\* C23: with complete metadata the tile at index k of the permutation, k in
\* 0 .. 23, is drawn at the k-th position of the row-major scan that skips
\* (2, 2), the free-space tile is drawn at (2, 2), and each of the 25 tiles
\* is drawn exactly once.
C23_PlacementIsRowMajor ==
    (pc = "done" /\ input.metadataData = Metadata) =>
        LET drawn == returned[1]
        IN  /\ \A k \in 0 .. GRID_SIZE * GRID_SIZE - 2 :
                 drawn[ScanPosition(k)] = input.shuffledSquares[k + 1]
            /\ drawn[FreeCell] = FreeCell
            /\ \A tile \in Cells : Cardinality({c \in Cells : drawn[c] = tile}) = 1

\* A permutation that moves the first tile was placed with complete metadata.
C23_Witness ==
    /\ pc = "done"
    /\ input.metadataData = Metadata
    /\ input.shuffledSquares[1] # <<0, 0>>
    /\ returned[1][<<0, 0>>] = input.shuffledSquares[1]

\* C24: when the bounds of one position are missing, only the placement at
\* that position is skipped: every other position receives the tile it
\* receives when the metadata is complete.
C24_MissingBoundsSkipOnePosition ==
    pc = "done" =>
        LET complete == PlaceSquares(input.shuffledSquares,
                                     FreeSpaceOf(SquareImages), Metadata)
        IN  \A c \in Cells :
              SquareKey(c[1], c[2]) \in input.metadataData.squares
                  => returned[1][c] = complete[c]

----------------------------------------------------------------------------
(* The component on a page.                                                *)

\* Mutant: without a last generated pair the card is never disabled.
updateCardClickableState_OnlyAfterGenerate(c, name, movie) ==
    LET nameChanged == name # c.lastGeneratedName
        movieChanged == movie # c.lastGeneratedMovie
    IN  IF Truthy(c.lastGeneratedName) /\ Truthy(c.lastGeneratedMovie)
        THEN ~(nameChanged \/ movieChanged)
        ELSE TRUE

\* The value updateCardClickableState gives isCardClickable.
updateCardClickableState(c, name, movie) ==
    LET nameChanged == name # c.lastGeneratedName
        movieChanged == movie # c.lastGeneratedMovie
    IN  IF Truthy(c.lastGeneratedName) /\ Truthy(c.lastGeneratedMovie)
        THEN ~(nameChanged \/ movieChanged)
        ELSE ~(Trim(name) # <<>> \/ Trim(movie) # <<>>)

\* Mutant: the h parameter is written but never removed.
UpdateUrl_KeepToken(search, c) ==
    IF Truthy(c.playerName) /\ Truthy(c.movieName)
    THEN [name |-> c.playerName,
          movie |-> c.movieName,
          h |-> IF Cardinality(c.highlightedSquares) > 0
                THEN encodeHighlights(c.highlightedSquares)
                ELSE search.h]
    ELSE search

\* The effect on highlightedSquares: the parameters written to the address
\* bar, or the ones it holds when a field is empty.  URLSearchParams writes
\* and reads back every string unchanged.
UpdateUrl(search, c) ==
    IF Truthy(c.playerName) /\ Truthy(c.movieName)
    THEN [name |-> c.playerName,
          movie |-> c.movieName,
          h |-> IF Cardinality(c.highlightedSquares) > 0
                THEN encodeHighlights(c.highlightedSquares)
                ELSE Null]
    ELSE search

\* Mutant: the inline hash forgets to trim.
InlineSeed_NoTrim(urlName, urlMovie) ==
    LET combined == ToLowerCase(urlName) \o <<CodeUnderscore>> \o ToLowerCase(urlMovie)
    IN  MathAbs(HashLoop(combined, [hash |-> 0, i |-> 0]).hash)

\* The seed loadAssets derives inline from the URL parameters.
InlineSeed(urlName, urlMovie) ==
    LET combined == Trim(ToLowerCase(urlName)) \o <<CodeUnderscore>>
                       \o Trim(ToLowerCase(urlMovie))
    IN  MathAbs(HashLoop(combined, [hash |-> 0, i |-> 0]).hash)

AssetsLoaded(c) ==
    c.backgroundImage # NullObject /\ Len(c.squares) > 0 /\ c.metadata # NullObject

\* The Clear button replaces the Generate button.
ClearShown(c) ==
    /\ Cardinality(c.highlightedSquares) > 0
    /\ Trim(c.playerName) = c.lastGeneratedName
    /\ Trim(c.movieName) = c.lastGeneratedMovie

\* The attribute disabled of the Generate button.
GenerateDisabled(c) ==
    \/ Trim(c.playerName) = <<>>
    \/ Trim(c.movieName) = <<>>
    \/ /\ c.currentCard # NullObject
       /\ Trim(c.playerName) = c.lastGeneratedName
       /\ Trim(c.movieName) = c.lastGeneratedMovie
       /\ Cardinality(c.highlightedSquares) = 0

\* The strings typed into the fields: "", "A", " a " and "", " ", "B", "b ".
NameInputs == {<<>>, <<CodeUpperA>>, <<CodeSpace, CodeUpperA + CaseOffset, CodeSpace>>}
MovieInputs == {<<>>, <<CodeSpace>>, <<CodeUpperA + 1>>, <<CodeUpperA + 1 + CaseOffset, CodeSpace>>}

\* The h token "lc0": bits 10, 11, 13 and 14, the four non-free cells of
\* row 2.
RowTwoToken == <<CodeLowerBase + 21, CodeLowerBase + 12, CodeZero>>

\* The URLs a page is opened with: each parameter absent or present.
UrlInputs ==
    [name : {Null, <<CodeUpperA>>},
     movie : {Null, <<CodeUpperA + 1>>},
     h : {Null, RowTwoToken}]

\* Outcomes of Math.floor(Math.random() * 1000000).
RandomSeeds == {0, 999999}

\* A point inside no cell's bounds, as a cell that is not on the grid.
Outside == <<GRID_SIZE, GRID_SIZE>>

\* Where a click on the card lands.
ClickTargets == {<<0, 0>>, FreeCell, Outside}

\* Non-free cells to click: one that only a click marks, one that the URL
\* token marks, one that nothing marks.
ToggleTargets == {<<0, 0>>, <<2, 0>>, <<4, 4>>}

\* React 18 batches the state set after an await and renders later; the
\* legacy renderer renders at each of them.
RenderingModes == {"batched", "sync"}

\* How far loadAssets gets before a request fails: nothing, the metadata,
\* the metadata and the background.
FailureStages == 0 .. 2

NoCall ==
    /\ pc = "page"
    /\ input = <<>>
    /\ frame = NoFrame
    /\ returned = <<>>

InitSession ==
    /\ NoCall
    /\ location \in UrlInputs
    /\ rendering \in RenderingModes
    /\ phase = "mount"
    /\ canvasRef = NullObject
    /\ component = useStateDefaults
    /\ generated = {}

\* The hooks after the effect run on mount and the effects of the render it
\* causes, search being window.location.search.
mountEffect(c, search) ==
    LET urlName == search.name
        urlMovie == search.movie
        urlHighlights == search.h
        fromUrl ==
          [c EXCEPT
             !.playerName = IF Truthy(urlName) THEN urlName ELSE @,
             !.lastGeneratedName = IF Truthy(urlName) THEN urlName ELSE @,
             !.movieName = IF Truthy(urlMovie) THEN urlMovie ELSE @,
             !.lastGeneratedMovie = IF Truthy(urlMovie) THEN urlMovie ELSE @,
             !.highlightedSquares =
                 IF Truthy(urlHighlights) THEN decodeHighlights(urlHighlights) ELSE @]
    IN  [fromUrl EXCEPT !.isCardClickable =
            updateCardClickableState(fromUrl, fromUrl.playerName, fromUrl.movieName)]

\* The address bar after the mount: the effect on highlightedSquares rewrites
\* it when the URL gave highlights.
MountUrl(c, search) ==
    IF Truthy(search.h) THEN UpdateUrl(search, mountEffect(c, search)) ELSE search

\* The effect run on mount, and the effects of the render it causes.
MountEffect ==
    /\ phase = "mount"
    /\ component' = mountEffect(component, location)
    /\ location' = MountUrl(component, location)
    /\ phase' = "loading"
    /\ UNCHANGED <<rendering, canvasRef, generated>>
    /\ UNCHANGED pureVars

\* The hooks after loadAssets when every request succeeds, canvas being
\* canvasRef.current when generateCard is called.
loadAssets(c, search, canvas, random) ==
    LET urlName == search.name
        urlMovie == search.movie
        urlHighlights == search.h
        loaded == [c EXCEPT !.metadata = Metadata,
                            !.backgroundImage = BackgroundImage,
                            !.squares = SquareImages,
                            !.isLoading = FALSE]
        both == Truthy(urlName) /\ Truthy(urlMovie)
        seed == IF both THEN InlineSeed(urlName, urlMovie) ELSE random
        initialHighlights ==
            IF both /\ Truthy(urlHighlights)
            THEN decodeHighlights(urlHighlights) ELSE {}
    IN  [generateCard(loaded, useStateDefaults, canvas, BackgroundImage,
                      SquareImages, Metadata, initialHighlights, FALSE,
                      <<seed>>, random)
           EXCEPT !.winningSquares = checkBingo(initialHighlights, Metadata)]

\* loadAssets when every request succeeds.  With the legacy renderer the
\* canvas is mounted when generateCard is called and the assets-loaded effect
\* has run before, without a canvas; with batching the canvas is mounted by
\* the render that follows and the effect runs after it.
LoadAssets ==
    /\ phase = "loading"
    /\ \E random \in RandomSeeds :
         component' =
           loadAssets(component, location,
                      IF rendering = "sync" THEN Canvas ELSE canvasRef, random)
    /\ canvasRef' = Canvas
    /\ phase' = IF rendering = "sync" THEN "ready" ELSE "effect"
    /\ UNCHANGED <<location, rendering, generated>>
    /\ UNCHANGED pureVars

\* loadAssets when a request fails: the catch block ends the loading.
LoadAssetsFail ==
    /\ phase = "loading"
    /\ \E stage \in FailureStages :
         component' =
           [component EXCEPT
              !.metadata = IF stage >= 1 THEN Metadata ELSE @,
              !.backgroundImage = IF stage >= 2 THEN BackgroundImage ELSE @,
              !.isLoading = FALSE]
    /\ canvasRef' = Canvas
    /\ phase' = "ready"
    /\ UNCHANGED <<location, rendering, generated>>
    /\ UNCHANGED pureVars

\* regenerateCard, the effect on backgroundImage, squares and metadata: the
\* hooks after it.
regenerateCard(c, search, canvas, random) ==
    LET urlName == search.name
        urlMovie == search.movie
        urlHighlights == search.h
    IN  IF ~AssetsLoaded(c) THEN c
        ELSE IF Truthy(urlName) /\ Truthy(urlMovie)
        THEN LET seed == generateSeed(urlName, urlMovie)
                 highlights == IF Truthy(urlHighlights)
                               THEN decodeHighlights(urlHighlights) ELSE {}
             IN  [generateCard(c, c, canvas, c.backgroundImage, c.squares,
                               c.metadata, highlights, FALSE, <<seed>>, random)
                    EXCEPT !.winningSquares = checkBingo(highlights, c.metadata)]
        ELSE IF ~Truthy(urlName) /\ ~Truthy(urlMovie)
        THEN [generateCard(c, c, canvas, c.backgroundImage, c.squares,
                           c.metadata, {}, FALSE, <<random>>, random)
                EXCEPT !.winningSquares = {}]
        ELSE c

\* The effect on backgroundImage, squares and metadata, once all are set.
AssetsLoadedEffect ==
    /\ phase = "effect"
    /\ \E random \in RandomSeeds :
         component' = regenerateCard(component, location, canvasRef, random)
    /\ phase' = "ready"
    /\ UNCHANGED <<location, rendering, canvasRef, generated>>
    /\ UNCHANGED pureVars

\* The hooks once a page opened with search has loaded its assets: the mount
\* effect, loadAssets, and with batching the assets-loaded effect after it.
PageLoad(search, mode, first, second) ==
    LET mounted == mountEffect(useStateDefaults, search)
        url == MountUrl(useStateDefaults, search)
    IN  IF mode = "sync"
        THEN loadAssets(mounted, url, Canvas, first)
        ELSE regenerateCard(loadAssets(mounted, url, NullObject, first),
                            url, Canvas, second)

----------------------------------------------------------------------------
(* The two generations of a load from URL parameters, side by side.        *)

\* The URLs with a name and a movie, without highlights.
PairUrls ==
    [name : SeedStrings \ {<<>>}, movie : SeedStrings \ {<<>>}, h : {Null}]

InitUrlPair ==
    /\ pc = "idle"
    /\ input \in PairUrls
    /\ frame = NoFrame
    /\ returned = <<>>
    /\ NotMounted

\* The generation that loadAssets starts, on a mounted canvas.
CallLoadAssets ==
    /\ pc = "idle"
    /\ \E random \in RandomSeeds :
         returned' =
           <<loadAssets(mountEffect(useStateDefaults, input), input, Canvas,
                        random).currentShuffledSquares>>
    /\ pc' = "loaded"
    /\ UNCHANGED <<input, frame>>
    /\ UNCHANGED sessionVars

\* The generation that the assets-loaded effect starts, when loadAssets
\* found no canvas.
CallRegenerateCard ==
    /\ pc = "loaded"
    /\ \E random \in RandomSeeds :
         LET loaded == loadAssets(mountEffect(useStateDefaults, input), input,
                                  NullObject, random)
         IN  returned' =
               Append(returned,
                      regenerateCard(loaded, input, Canvas,
                                     random).currentShuffledSquares)
    /\ pc' = "done"
    /\ UNCHANGED <<input, frame>>
    /\ UNCHANGED sessionVars

NextUrlPair == CallLoadAssets \/ CallRegenerateCard

SpecUrlPair == InitUrlPair /\ [][NextUrlPair]_vars

\* C28: for every name and movie the hash that loadAssets computes inline
\* equals generateSeed(name, movie), and the generation started by loadAssets
\* and the one started by the assets-loaded effect store the same
\* permutation.
C28_InlineHashIsGenerateSeed ==
    /\ InlineSeed(input.name, input.movie) = generateSeed(input.name, input.movie)
    /\ pc = "done" => returned[1] = returned[2]

\* Both generations ran for the name " a" and the movie "z ", and stored
\* the permutation of the seed of ("a", "z").
C28_Witness ==
    /\ pc = "done"
    /\ input.name = <<CodeSpace, CodeUpperA>>
    /\ input.movie = <<CodeUpperZ + CaseOffset, CodeSpace>>
    /\ returned[1] = returned[2]
    /\ returned[2] =
         seededShuffle(OtherSquares,
                       generateSeed(<<CodeUpperA>>, <<CodeUpperZ + CaseOffset>>))

\* onChange of the name field.
ChangePlayerName ==
    /\ phase = "ready"
    /\ ~component.showWarningModal
    /\ \E newValue \in NameInputs :
         /\ newValue # component.playerName
         /\ component' =
              [component EXCEPT
                 !.playerName = newValue,
                 !.isCardClickable =
                     updateCardClickableState(component, newValue, component.movieName)]
    /\ UNCHANGED <<location, rendering, phase, canvasRef, generated>>
    /\ UNCHANGED pureVars

\* onChange of the movie field.
ChangeMovieName ==
    /\ phase = "ready"
    /\ ~component.showWarningModal
    /\ \E newValue \in MovieInputs :
         /\ newValue # component.movieName
         /\ component' =
              [component EXCEPT
                 !.movieName = newValue,
                 !.isCardClickable =
                     updateCardClickableState(component, component.playerName, newValue)]
    /\ UNCHANGED <<location, rendering, phase, canvasRef, generated>>
    /\ UNCHANGED pureVars

\* The undo button of the name field.
UndoPlayerName ==
    /\ phase = "ready"
    /\ ~component.showWarningModal
    /\ component.playerName # component.lastGeneratedName
    /\ Truthy(component.lastGeneratedName)
    /\ component' =
         [component EXCEPT
            !.playerName = component.lastGeneratedName,
            !.isCardClickable =
                updateCardClickableState(component, component.lastGeneratedName,
                                         component.movieName)]
    /\ UNCHANGED <<location, rendering, phase, canvasRef, generated>>
    /\ UNCHANGED pureVars

\* The undo button of the movie field.
UndoMovieName ==
    /\ phase = "ready"
    /\ ~component.showWarningModal
    /\ component.movieName # component.lastGeneratedMovie
    /\ Truthy(component.lastGeneratedMovie)
    /\ component' =
         [component EXCEPT
            !.movieName = component.lastGeneratedMovie,
            !.isCardClickable =
                updateCardClickableState(component, component.playerName,
                                         component.lastGeneratedMovie)]
    /\ UNCHANGED <<location, rendering, phase, canvasRef, generated>>
    /\ UNCHANGED pureVars

\* Mutant: a generation that keeps the marks and the win.
proceedWithGeneration_KeepHighlights(c, canvas, random) ==
    LET closed == [c EXCEPT !.showWarningModal = FALSE]
    IN  IF AssetsLoaded(c)
        THEN LET seed == generateSeed(c.playerName, c.movieName)
             IN  [generateCard(closed, c, canvas, c.backgroundImage, c.squares,
                               c.metadata, {}, FALSE, <<seed>>, random)
                    EXCEPT !.lastGeneratedName = c.playerName,
                           !.lastGeneratedMovie = c.movieName,
                           !.isCardClickable = TRUE]
        ELSE closed

\* proceedWithGeneration: the state hooks after the call.
proceedWithGeneration(c, canvas, random) ==
    LET closed == [c EXCEPT !.showWarningModal = FALSE]
    IN  IF AssetsLoaded(c)
        THEN LET cleared == [closed EXCEPT !.highlightedSquares = {},
                                           !.winningSquares = {}]
                 seed == generateSeed(c.playerName, c.movieName)
             IN  [generateCard(cleared, c, canvas, c.backgroundImage, c.squares,
                               c.metadata, {}, FALSE, <<seed>>, random)
                    EXCEPT !.lastGeneratedName = c.playerName,
                           !.lastGeneratedMovie = c.movieName,
                           !.isCardClickable = TRUE]
        ELSE closed

\* proceedWithGeneration as a step: the hooks, the address bar, and the record
\* of the card it generated, kept or not for later comparison.
ProceedWithGeneration ==
    /\ \E random \in RandomSeeds :
         component' = proceedWithGeneration(component, canvasRef, random)
    /\ location' =
         IF AssetsLoaded(component)
         THEN UpdateUrl(location, [component EXCEPT !.highlightedSquares = {}])
         ELSE location
    /\ \E remember \in BOOLEAN :
         generated' =
           IF AssetsLoaded(component) /\ remember
                /\ Cardinality(generated) < MaxRemembered
           THEN generated \cup
                  {[name |-> component.playerName,
                    movie |-> component.movieName,
                    shuffledSquares |-> component'.currentShuffledSquares,
                    tiles |-> component'.currentCard.tiles]}
           ELSE generated

\* proceedWithClear as a step.
ProceedWithClear ==
    /\ \E random \in RandomSeeds :
         LET cleared == [component EXCEPT !.showWarningModal = FALSE,
                                          !.highlightedSquares = {},
                                          !.winningSquares = {}]
         IN  component' =
               IF AssetsLoaded(component)
               THEN generateCard(cleared, component, canvasRef,
                                 component.backgroundImage, component.squares,
                                 component.metadata, {}, TRUE, NoSeed, random)
               ELSE cleared
    /\ location' = UpdateUrl(location, [component EXCEPT !.highlightedSquares = {}])
    /\ UNCHANGED generated

\* A press of the Generate button.
HandleGenerate ==
    /\ phase = "ready"
    /\ ~component.showWarningModal
    /\ ~ClearShown(component)
    /\ ~GenerateDisabled(component)
    /\ IF Trim(component.playerName) = <<>> \/ Trim(component.movieName) = <<>>
       THEN UNCHANGED <<location, component, generated>>
       ELSE IF Cardinality(component.highlightedSquares) > 0
       THEN /\ component' = [component EXCEPT !.modalAction = "generate",
                                              !.showWarningModal = TRUE]
            /\ UNCHANGED <<location, generated>>
       ELSE ProceedWithGeneration
    /\ UNCHANGED <<rendering, phase, canvasRef>>
    /\ UNCHANGED pureVars

\* Mutant: the Clear button clears without asking.
HandleClear_NoDialog ==
    /\ phase = "ready"
    /\ ~component.showWarningModal
    /\ ClearShown(component)
    /\ ProceedWithClear
    /\ UNCHANGED <<rendering, phase, canvasRef>>
    /\ UNCHANGED pureVars

\* A press of the Clear button.
HandleClear ==
    /\ phase = "ready"
    /\ ~component.showWarningModal
    /\ ClearShown(component)
    /\ component' = [component EXCEPT !.modalAction = "clear",
                                      !.showWarningModal = TRUE]
    /\ UNCHANGED <<location, rendering, phase, canvasRef, generated>>
    /\ UNCHANGED pureVars

\* Cancel, or a click on the overlay of the dialog.
ModalCancel ==
    /\ phase = "ready"
    /\ component.showWarningModal
    /\ component' = [component EXCEPT !.showWarningModal = FALSE]
    /\ UNCHANGED <<location, rendering, phase, canvasRef, generated>>
    /\ UNCHANGED pureVars

\* Continue in the dialog.
ModalContinue ==
    /\ phase = "ready"
    /\ component.showWarningModal
    /\ IF component.modalAction = "generate"
       THEN ProceedWithGeneration
       ELSE ProceedWithClear
    /\ UNCHANGED <<rendering, phase, canvasRef>>
    /\ UNCHANGED pureVars

\* Mutant: the copy the click works on starts empty, not from the set.
handleCanvasClick_FreshCopy(c, canvas, target, random) ==
    LET squareKey == SquareKey(target[1], target[2])
        newHighlighted ==
            IF squareKey \in c.highlightedSquares THEN {} ELSE {squareKey}
        toggled == [c EXCEPT
                      !.highlightedSquares = newHighlighted,
                      !.winningSquares = checkBingo(newHighlighted, c.metadata)]
    IN  IF \/ c.metadata = NullObject
           \/ c.currentCard = NullObject
           \/ ~c.isCardClickable
           \/ squareKey \notin c.metadata.squares
        THEN c
        ELSE IF c.backgroundImage # NullObject /\ Len(c.squares) > 0
        THEN generateCard(toggled, c, canvas, c.backgroundImage, c.squares,
                          c.metadata, newHighlighted, TRUE, NoSeed, random)
        ELSE toggled

\* Mutant: a click marks the cell and never unmarks it.
handleCanvasClick_AddOnly(c, canvas, target, random) ==
    LET squareKey == SquareKey(target[1], target[2])
        newHighlighted == c.highlightedSquares \cup {squareKey}
        toggled == [c EXCEPT
                      !.highlightedSquares = newHighlighted,
                      !.winningSquares = checkBingo(newHighlighted, c.metadata)]
    IN  IF \/ c.metadata = NullObject
           \/ c.currentCard = NullObject
           \/ ~c.isCardClickable
           \/ squareKey \notin c.metadata.squares
        THEN c
        ELSE IF c.backgroundImage # NullObject /\ Len(c.squares) > 0
        THEN generateCard(toggled, c, canvas, c.backgroundImage, c.squares,
                          c.metadata, newHighlighted, TRUE, NoSeed, random)
        ELSE toggled

\* handleCanvasClick for a click that lands on target: the state hooks after
\* the call, c holding the hooks of the render the handler was created in.
handleCanvasClick(c, canvas, target, random) ==
    LET squareKey == SquareKey(target[1], target[2])
        newHighlighted ==
            IF squareKey \in c.highlightedSquares
            THEN c.highlightedSquares \ {squareKey}
            ELSE c.highlightedSquares \cup {squareKey}
        toggled == [c EXCEPT
                      !.highlightedSquares = newHighlighted,
                      !.winningSquares = checkBingo(newHighlighted, c.metadata)]
    IN  IF \/ c.metadata = NullObject
           \/ c.currentCard = NullObject
           \/ ~c.isCardClickable
           \/ squareKey \notin c.metadata.squares
        THEN c
        ELSE IF c.backgroundImage # NullObject /\ Len(c.squares) > 0
        THEN generateCard(toggled, c, canvas, c.backgroundImage, c.squares,
                          c.metadata, newHighlighted, TRUE, NoSeed, random)
        ELSE toggled

\* handleCanvasClick as a step: the hooks, and the address bar that the
\* effect on highlightedSquares rewrites when the set changed.
ClickAt(target, random) ==
    /\ component' = handleCanvasClick(component, canvasRef, target, random)
    /\ location' =
         IF component'.highlightedSquares # component.highlightedSquares
         THEN UpdateUrl(location, component')
         ELSE location

\* A click on the card image that lands on one of targets.
HandleCanvasClickOn(targets) ==
    /\ phase = "ready"
    /\ ~component.showWarningModal
    /\ component.currentCard # NullObject
    /\ \E target \in targets, random \in RandomSeeds : ClickAt(target, random)
    /\ UNCHANGED <<rendering, phase, canvasRef, generated>>
    /\ UNCHANGED pureVars

\* A click on the card image.
HandleCanvasClick == HandleCanvasClickOn(ClickTargets)

\* A click on the card image, on more of its cells.
HandleCanvasClickAnywhere == HandleCanvasClickOn(ClickTargets \cup ToggleTargets)

\* The page is reloaded, or opened with another URL: a new session.
Navigate ==
    /\ phase = "ready"
    /\ location' \in UrlInputs \cup {location}
    /\ phase' = "mount"
    /\ canvasRef' = NullObject
    /\ component' = useStateDefaults
    /\ UNCHANGED <<rendering, generated>>
    /\ UNCHANGED pureVars

NextSession ==
    \/ MountEffect
    \/ LoadAssets
    \/ LoadAssetsFail
    \/ AssetsLoadedEffect
    \/ ChangePlayerName
    \/ ChangeMovieName
    \/ UndoPlayerName
    \/ UndoMovieName
    \/ HandleGenerate
    \/ HandleClear
    \/ ModalCancel
    \/ ModalContinue
    \/ HandleCanvasClick
    \/ Navigate

SpecSession == InitSession /\ [][NextSession]_vars

\* The session alone: every step of the component, the cards that Generate
\* and Continue make not being kept for comparison.
NextComponent ==
    \/ MountEffect
    \/ LoadAssets
    \/ LoadAssetsFail
    \/ AssetsLoadedEffect
    \/ ChangePlayerName
    \/ ChangeMovieName
    \/ UndoPlayerName
    \/ UndoMovieName
    \/ HandleGenerate /\ generated' = generated
    \/ HandleClear
    \/ ModalCancel
    \/ ModalContinue /\ generated' = generated
    \/ HandleCanvasClick
    \/ Navigate

SpecComponent == InitSession /\ [][NextComponent]_vars

\* The load of a page, left alone by the user: React runs a pending effect,
\* and the requests of loadAssets end, by success or by failure.
NextLoad ==
    \/ MountEffect
    \/ LoadAssets
    \/ LoadAssetsFail
    \/ AssetsLoadedEffect
    \/ Navigate

\* The load advances: a step of MountEffect, of LoadAssets or
\* LoadAssetsFail, or of AssetsLoadedEffect, the only steps that the phases
\* before "ready" allow and that are always possible in them.
LoadStep ==
    /\ phase \in {"mount", "loading", "effect"}
    /\ phase' \in {"loading", "effect", "ready"}

SpecLoad == InitSession /\ [][NextLoad]_vars /\ WF_phase(LoadStep)

\* The load of a page and the clicks on its card, the fields left alone.
NextClicks ==
    \/ MountEffect
    \/ LoadAssets
    \/ LoadAssetsFail
    \/ AssetsLoadedEffect
    \/ HandleCanvasClickAnywhere
    \/ Navigate

SpecClicks == InitSession /\ [][NextClicks]_vars

----------------------------------------------------------------------------
(* Claims on the session.                                                  *)

\* A name or a title after trimming and lower-casing.
Normalized(str) == ToLowerCase(Trim(str))

\* C4: any two cards that a confirmed Generate produced, in the same session
\* or in different ones and whatever card and marks were there before, hold
\* the same tile permutation, stored and drawn, when their names and their
\* titles are equal after trimming and lower-casing.
C4_SamePairSamePermutation ==
    \A a, b \in generated :
        (Normalized(a.name) = Normalized(b.name)
            /\ Normalized(a.movie) = Normalized(b.movie))
        => (a.shuffledSquares = b.shuffledSquares /\ a.tiles = b.tiles)

\* Two cards were generated from pairs written differently but equal once
\* normalized, and the card of the session that generated the second one
\* holds the permutation of the first.
C4_Witness ==
    \E a, b \in generated :
        /\ a.name # b.name
        /\ a.movie # b.movie
        /\ Normalized(a.name) = Normalized(b.name)
        /\ Normalized(a.movie) = Normalized(b.movie)
        /\ a.shuffledSquares = b.shuffledSquares
        /\ component.lastGeneratedName = b.name
        /\ component.lastGeneratedMovie = b.movie
        /\ component.currentShuffledSquares = a.shuffledSquares

\* C15: a click that lands inside the bounds of the free cell (2, 2) leaves
\* the highlight set as it was.
C15_FreeCellClickKeepsHighlights ==
    [][(\E random \in RandomSeeds : ClickAt(FreeCell, random))
          => component'.highlightedSquares = component.highlightedSquares]_vars

\* C16: in every reachable state of a session the highlight set is a subset
\* of the 24 non-free cells: it never holds the key of cell (2, 2) and has
\* between 0 and 24 elements.
C16_HighlightsAreNonFreeCells ==
    /\ component.highlightedSquares \subseteq KeysOf(Cells \ {FreeCell})
    /\ FreeKey \notin component.highlightedSquares
    /\ Cardinality(component.highlightedSquares) \in 0 .. GRID_SIZE * GRID_SIZE - 1

\* C17: once the assets are loaded, after the initialisation from the URL
\* and after every toggle, confirmed Clear and confirmed Generate, the
\* stored win set is checkBingo of the stored highlight set.
C17_WinSetIsCheckBingoOfHighlights ==
    (phase = "ready" /\ AssetsLoaded(component))
        => component.winningSquares =
               checkBingo(component.highlightedSquares, component.metadata)

\* A confirmed Clear: Continue in the dialog that the Clear button opened.
ConfirmedClear == ModalContinue /\ component.modalAction # "generate"

\* C18: a toggle and a confirmed Clear leave the stored permutation exactly
\* as it was; only a card generation (at the load of the page or by Generate)
\* or the opening of a new page replaces it.
C18_PermutationHeldUntilGeneration ==
    [][/\ (HandleCanvasClick \/ ConfirmedClear)
            => component'.currentShuffledSquares = component.currentShuffledSquares
       /\ component'.currentShuffledSquares # component.currentShuffledSquares
            => \/ LoadAssets
               \/ AssetsLoadedEffect
               \/ HandleGenerate
               \/ (ModalContinue /\ component.modalAction = "generate")
               \/ Navigate]_vars

\* The card can be clicked: it is shown, enabled, and no dialog covers it.
CardClickable ==
    /\ phase = "ready"
    /\ ~component.showWarningModal
    /\ component.currentCard # NullObject
    /\ component.isCardClickable
    /\ component.metadata # NullObject

\* C19: a click on a non-free cell c of a clickable card changes the
\* highlight set exactly in the membership of c, added if absent and removed
\* if present, every other cell keeping its membership; a second click on c
\* restores the set the first one found.
C19_ToggleChangesOneCell ==
    CardClickable =>
        \A target \in ToggleTargets, first, second \in RandomSeeds :
            LET key == SquareKey(target[1], target[2])
                before == component.highlightedSquares
                once == handleCanvasClick(component, canvasRef, target, first)
                twice == handleCanvasClick(once, canvasRef, target, second)
            IN  /\ once.highlightedSquares =
                     IF key \in before THEN before \ {key} ELSE before \cup {key}
                /\ once.highlightedSquares \ {key} = before \ {key}
                /\ twice.highlightedSquares = before

\* A click has marked cell (0, 0) next to the four cells of row 2 that the
\* URL gave, and the card can be clicked again.
C19_Witness ==
    /\ CardClickable
    /\ component.highlightedSquares =
         KeysOf({<<0, 0>>}) \cup decodeHighlights(RowTwoToken)

\* A Generate that goes through: a press of the button on a card without
\* marks, or Continue in the dialog the button opened, with the assets loaded.
GenerateGoesThrough ==
    /\ AssetsLoaded(component)
    /\ \/ HandleGenerate /\ Cardinality(component.highlightedSquares) = 0
       \/ ModalContinue /\ component.modalAction = "generate"

\* C20: immediately after every Generate that goes through, the highlight
\* set and the win set are empty, whatever they were before.
C20_GenerateClearsMarksAndWin ==
    [][\/ component'.highlightedSquares = {} /\ component'.winningSquares = {}
       \/ ~GenerateGoesThrough]_vars

\* The dialog that Generate opens on a marked card was confirmed: the card
\* is the one of the fields, which differ from the URL the page was opened
\* with, it can be clicked, and neither mark nor win is left.
C20_Witness ==
    /\ phase = "ready"
    /\ component.modalAction = "generate"
    /\ ~component.showWarningModal
    /\ component.currentCard # NullObject
    /\ component.isCardClickable
    /\ component.lastGeneratedName = component.playerName
    /\ component.lastGeneratedMovie = component.movieName
    /\ component.playerName \notin {<<>>, <<CodeUpperA>>}
    /\ location.name = component.playerName
    /\ location.h = Null
    /\ component.highlightedSquares = {}
    /\ component.winningSquares = {}

\* The address bar holds a share link: a URL with a name and a movie, as
\* the session writes them, in a session whose assets are loaded.
ShareLink ==
    /\ phase = "ready"
    /\ AssetsLoaded(component)
    /\ Truthy(location.name)
    /\ Truthy(location.movie)

\* C21: a page loaded with the URL that a session holds in its address bar
\* has, once its assets are loaded, the tile permutation, the highlight set
\* and the win set of that session.
C21_ShareLinkRoundTrip ==
    ShareLink =>
        \A mode \in RenderingModes, first, second \in RandomSeeds :
            LET fresh == PageLoad(location, mode, first, second)
            IN  /\ fresh.currentShuffledSquares = component.currentShuffledSquares
                /\ fresh.highlightedSquares = component.highlightedSquares
                /\ fresh.winningSquares = component.winningSquares

\* A string that is present and not empty after trimming.
NonBlank(str) == str # Null /\ Trim(str) # <<>>

\* A load that derives a seed from the URL parameters: loadAssets or the
\* assets-loaded effect, with a name and a movie it takes as present.
SeedFromUrl ==
    /\ Truthy(location.name)
    /\ Truthy(location.movie)
    /\ LoadAssets \/ (AssetsLoadedEffect /\ AssetsLoaded(component))

\* C22: on every path that derives a seed from a name and a title, the
\* Generate button and the load from URL parameters, both are non-empty
\* after trimming.
C22_SeedOnlyFromNonBlankPair ==
    [][/\ (NonBlank(location.name) /\ NonBlank(location.movie)) \/ ~SeedFromUrl
       /\ (NonBlank(component.playerName) /\ NonBlank(component.movieName))
            \/ ~GenerateGoesThrough]_vars

\* loadAssets has loaded every asset of the page.
LoadSucceeded ==
    /\ phase \in {"effect", "ready"}
    /\ AssetsLoaded(component)

\* C25: after all assets have loaded, whatever URL parameters are present,
\* a card is eventually generated and displayed, unless the page is left
\* before.
C25_CardEventuallyDisplayed ==
    LoadSucceeded ~> (component.currentCard # NullObject \/ phase = "mount")

\* The set with the membership of key flipped.
Flipped(set, key) == IF key \in set THEN set \ {key} ELSE set \cup {key}

\* C26: two clicks on distinct non-free cells of a clickable card, handled
\* one after the other, both take effect: the highlight set is the one
\* before with the membership of both cells flipped.
C26_SuccessiveTogglesBothApply ==
    CardClickable =>
        \A a, b \in ToggleTargets, random \in RandomSeeds :
            a # b =>
                LET once == handleCanvasClick(component, canvasRef, a, random)
                    twice == handleCanvasClick(once, canvasRef, b, random)
                IN  twice.highlightedSquares =
                      Flipped(Flipped(component.highlightedSquares,
                                      SquareKey(a[1], a[2])),
                              SquareKey(b[1], b[2]))

\* On a page opened without parameters, two clicks have marked (0, 0) and
\* (4, 4), and the card can be clicked again.
C26_Witness ==
    /\ CardClickable
    /\ location.h = Null
    /\ component.highlightedSquares = KeysOf({<<0, 0>>, <<4, 4>>})

\* C27: after every change of the highlight set while the name and the
\* movie field are both non-empty, the address bar has name and movie equal
\* to the fields, and h equal to encodeHighlights of the set when it is
\* non-empty and no h when it is empty.
C27_UrlFollowsHighlights ==
    [][(/\ component'.highlightedSquares # component.highlightedSquares
        /\ component'.playerName # <<>>
        /\ component'.movieName # <<>>)
          => /\ location'.name = component'.playerName
             /\ location'.movie = component'.movieName
             /\ location'.h =
                  IF component'.highlightedSquares = {}
                  THEN Null
                  ELSE encodeHighlights(component'.highlightedSquares)]_vars

\* A click has added cell (0, 0) to the marks of the URL, and the address
\* bar holds the fields and the token of the five marks.
C27_Witness ==
    /\ phase = "ready"
    /\ component.playerName # <<>>
    /\ component.movieName # <<>>
    /\ component.highlightedSquares =
         KeysOf({<<0, 0>>}) \cup decodeHighlights(RowTwoToken)
    /\ location.name = component.playerName
    /\ location.movie = component.movieName
    /\ location.h = encodeHighlights(component.highlightedSquares)
    /\ location.h # RowTwoToken

\* The fields equal the values of the last generated card, or no card was
\* generated from a name and a movie and both fields are blank.
FieldsMatchCard ==
    \/ /\ component.playerName = component.lastGeneratedName
       /\ component.movieName = component.lastGeneratedMovie
    \/ /\ ~(Truthy(component.lastGeneratedName) /\ Truthy(component.lastGeneratedMovie))
       /\ Trim(component.playerName) = <<>>
       /\ Trim(component.movieName) = <<>>

\* C29: a click on the card toggles a cell only when the fields match the
\* card; in every other state it leaves the highlight set, the win set, the
\* permutation and the URL unchanged.
C29_ClicksGatedByFields ==
    [][\/ FieldsMatchCard
       \/ /\ component'.highlightedSquares = component.highlightedSquares
          /\ component'.winningSquares = component.winningSquares
          /\ component'.currentShuffledSquares = component.currentShuffledSquares
          /\ location' = location
       \/ ~HandleCanvasClick]_vars

\* A marked card whose name field was changed after the marks were made: it
\* is shown, disabled, and a click on it changes nothing.
C29_Witness ==
    /\ phase = "ready"
    /\ ~component.showWarningModal
    /\ component.currentCard # NullObject
    /\ component.highlightedSquares # {}
    /\ ~FieldsMatchCard
    /\ ~component.isCardClickable
    /\ \A target \in ClickTargets, random \in RandomSeeds :
         handleCanvasClick(component, canvasRef, target, random) = component

\* Nothing but the warning dialog changes.
OnlyDialogChanges ==
    /\ component' = [component EXCEPT
                       !.showWarningModal = component'.showWarningModal,
                       !.modalAction = component'.modalAction]
    /\ location' = location

\* The highlight set, the win set, the permutation or the URL changes.
MarksChange ==
    \/ component'.highlightedSquares # component.highlightedSquares
    \/ component'.winningSquares # component.winningSquares
    \/ component'.currentShuffledSquares # component.currentShuffledSquares
    \/ location' # location

\* C30: a press of Generate on a marked card, a press of Clear, and Cancel
\* or a click on the overlay change nothing but the warning dialog; while
\* the dialog is open the highlight set, the win set, the permutation and
\* the URL of the page change only by Continue, until the page is left.
C30_MarksDiscardedOnlyOnContinue ==
    [][/\ \/ OnlyDialogChanges
          \/ ~(\/ component.highlightedSquares # {} /\ HandleGenerate
               \/ HandleClear
               \/ ModalCancel)
       /\ \/ ~MarksChange
          \/ ~component.showWarningModal
          \/ Navigate
          \/ ModalContinue]_vars

\* Clear was pressed on the card with the marks of the URL and the dialog
\* was closed by Cancel: the marks and the winning row are still there.
C30_Witness ==
    /\ phase = "ready"
    /\ component.modalAction = "clear"
    /\ ~component.showWarningModal
    /\ decodeHighlights(RowTwoToken) \subseteq component.highlightedSquares
    /\ component.winningSquares # {}
    /\ component.currentCard # NullObject

\* The card that the hooks c hold, if any, shows the tiles of the
\* permutation that c stores.
DrawnFromStored(c) ==
    c.currentCard # NullObject =>
        /\ c.currentShuffledSquares # Null
        /\ c.currentCard.tiles =
             PlaceSquares(c.currentShuffledSquares, FreeSpaceOf(c.squares),
                          c.metadata)

\* C32: in every state of the session the card displayed shows the tiles of
\* the stored permutation; and when the assets have loaded, whichever of the
\* two calls of generateCard, the one of loadAssets and the one of the
\* assets-loaded effect, finds the canvas mounted, and whatever Math.random
\* gives each, the card and the permutation left are those of one call.
C32_CardDrawnFromStoredShuffle ==
    /\ DrawnFromStored(component)
    /\ phase = "loading" =>
         \A atLoad, atEffect \in {NullObject, Canvas} :
            \A first, second \in RandomSeeds :
               DrawnFromStored(
                  regenerateCard(loadAssets(component, location, atLoad, first),
                                 location, atEffect, second))

\* A page opened without parameters has loaded with batching: loadAssets
\* called generateCard before the canvas was mounted, the effect called it
\* after, and a random card is displayed over a stored permutation.
C32_Witness ==
    /\ phase = "ready"
    /\ rendering = "batched"
    /\ location = NoParams
    /\ AssetsLoaded(component)
    /\ component.currentCard # NullObject
    /\ component.currentShuffledSquares # Null
    /\ component.highlightedSquares = {}
    /\ component.playerName = <<>>
    /\ component.movieName = <<>>

====
